---- MODULE Spec2Model ----
(***************************************************************************)
(* admin_upload.py: an uploaded CSV / workbook is reshaped into a pivot    *)
(* table (process_uploaded_to_pivot_df), serialised to CSV, and published  *)
(* to a file of a GitHub repository with GET (fetch sha) then PUT.         *)
(*                                                                         *)
(* One run of the script is one "run" r.  The script is straight-line      *)
(* code; the two HTTP calls are synchronous, so each of the steps          *)
(*   Process (lines 31-117), Get (lines 129-150), Put (lines 153-199)      *)
(* is one atomic action of a run, and several runs (several admins, or     *)
(* several browser sessions) interleave at these steps.                    *)
(***************************************************************************)
EXTENDS Integers, Sequences, FiniteSets, TLC

VARIABLES
    uploaded_file,  \* [run -> the uploaded file, or NoFile]
    pc,             \* [run -> position of the script]
    pivot_df,       \* [run -> the pivot table returned by the processing]
    name_col,       \* [run -> the identifier column the processing returned]
    course_cols,    \* [run -> the course columns the processing returned]
    csv_bytes,      \* [run -> pivot_df.to_csv(index=False)]
    resp_get,       \* [run -> response of requests.get, or NoResp]
    sha,            \* [run -> sha captured from the GET response]
    resp_put,       \* [run -> response of requests.put, or NoResp]
    out,            \* [run -> what the page has shown, in order]
    remote,         \* the file at (owner, repo, path, branch)
    requests        \* every HTTP request sent, in order

vars == <<uploaded_file, pc, pivot_df, name_col, course_cols, csv_bytes,
          resp_get, sha, resp_put, out, remote, requests>>

(***************************************************************************)
(* Bounds of the model.                                                    *)
(***************************************************************************)
NumRuns == 2

MaxRows == 2

MaxSheetRows == 2

Runs == 1..NumRuns

(***************************************************************************)
(* Python values.  None and "" are the two falsy values a sha can take.    *)
(***************************************************************************)
None == <<>>

EmptyStr == <<"">>

Truthy(x) == x # None /\ x # EmptyStr

BRANCH == "main"

COMMIT_MESSAGE == "Admin: update processed pivot"

RAW_URL == "https://raw.githubusercontent.com/VeganSindhu/admin_upload/main/processed_pivot.csv"

HTML_URL == "https://github.com/VeganSindhu/admin_upload/blob/main/processed_pivot.csv"


(***************************************************************************)
(* Cell values of a DataFrame: int64, float64 (whole numbers only occur),  *)
(* str and NaN, every one a record of the same shape.                      *)
(***************************************************************************)
IntV(k) == [t |-> "int", n |-> k, s |-> ""]

FloatV(k) == [t |-> "float", n |-> k, s |-> ""]

StrV(x) == [t |-> "str", n |-> 0, s |-> x]

NaN == [t |-> "nan", n |-> 0, s |-> ""]

\* repr of a non-negative int, as str() and to_csv() write it
IntText(k) ==
    CASE k = 0 -> "0" [] k = 1 -> "1" [] k = 2 -> "2" [] k = 3 -> "3"
      [] k = 4 -> "4" [] k = 5 -> "5" [] k = 6 -> "6" [] k = 7 -> "7"
      [] k = 8 -> "8" [] OTHER -> "9"

\* repr of a whole float: str(1.0) = "1.0"
FloatText(k) ==
    CASE k = 0 -> "0.0" [] k = 1 -> "1.0" [] OTHER -> "2.0"

\* str(x) of a cell value (line 53, lines 74 and 76 astype(str))
PyStr(v) ==
    CASE v.t = "int" -> IntText(v.n)
      [] v.t = "float" -> FloatText(v.n)
      [] v.t = "str" -> v.s
      [] OTHER -> "nan"

\* str.strip() on the texts of the model
Strip(x) ==
    CASE x = " 1 " -> "1"
      [] x = " Name " -> "Name"
      [] x = "CourseA " -> "CourseA"
      [] x = "  " -> ""
      [] OTHER -> x

(***************************************************************************)
(* pd.read_csv: the cells of a column are parsed to one dtype.  A column   *)
(* whose non-empty cells are all integers is int64, or float64 as soon as  *)
(* one cell is empty (NaN); any other column keeps its texts (object).     *)
(***************************************************************************)
IsIntText(x) == x \in {"0", "1", " 1 "}

ParseInt(x) == IF x = "0" THEN 0 ELSE 1

ColDtype(rows, j) ==
    LET texts == {rows[i][j] : i \in DOMAIN rows}
    IN  IF \A x \in texts : x = "" \/ IsIntText(x)
        THEN IF "" \in texts THEN "float" ELSE "int"
        ELSE "object"

ParseCell(dtype, x) ==
    CASE x = "" -> NaN
      [] dtype = "int" -> IntV(ParseInt(x))
      [] dtype = "float" -> FloatV(ParseInt(x))
      [] OTHER -> StrV(x)

ReadCsv(file) ==
    [columns |-> file.header,
     data |-> [i \in DOMAIN file.rows |->
                 [j \in DOMAIN file.header |->
                    ParseCell(ColDtype(file.rows, j), file.rows[i][j])]]]

\* pd.read_excel(header=1): the cells keep the type the workbook gives them
ReadExcel(sheet) ==
    [columns |-> sheet.header,
     data |-> [i \in DOMAIN sheet.rows |->
                 [j \in DOMAIN sheet.header |->
                    IF sheet.rows[i][j] = "" THEN NaN ELSE StrV(sheet.rows[i][j])]]]

(***************************************************************************)
(* DataFrame helpers.                                                      *)
(***************************************************************************)
EmptyFrame == [columns |-> <<>>, data |-> <<>>]

\* the positions 1..n that are in keep, ascending
KeepIdx(n, keep) ==
    LET F[i \in 0..n] ==
          IF i = 0 THEN <<>>
          ELSE IF i \in keep THEN Append(F[i - 1], i) ELSE F[i - 1]
    IN  F[n]

SelectColumns(df, idx) ==
    [columns |-> [k \in DOMAIN idx |-> df.columns[idx[k]]],
     data |-> [i \in DOMAIN df.data |->
                 [k \in DOMAIN idx |-> df.data[i][idx[k]]]]]

SelectRows(df, idx) ==
    [columns |-> df.columns,
     data |-> [k \in DOMAIN idx |-> df.data[idx[k]]]]

\* df.columns = df.columns.astype(str).str.strip()
StripColumns(df) ==
    [columns |-> [j \in DOMAIN df.columns |-> Strip(df.columns[j])],
     data |-> df.data]

\* df.dropna(axis=1, how="all")
DropAllNaColumns(df) ==
    SelectColumns(df, KeepIdx(Len(df.columns),
        {j \in DOMAIN df.columns : \E i \in DOMAIN df.data : df.data[i][j] # NaN}))

NoCol == "<none>"

\* next((c for c in columns if c in wanted), None)
FirstColumn(columns, wanted) ==
    IF \E j \in DOMAIN columns : columns[j] \in wanted
    THEN columns[CHOOSE j \in DOMAIN columns :
                    /\ columns[j] \in wanted
                    /\ \A k \in 1..(j - 1) : columns[k] \notin wanted]
    ELSE NoCol

ColIndex(columns, c) ==
    CHOOSE j \in DOMAIN columns :
        columns[j] = c /\ \A k \in 1..(j - 1) : columns[k] # c

Cell(df, i, c) ==
    IF \E j \in DOMAIN df.columns : df.columns[j] = c
    THEN df.data[i][ColIndex(df.columns, c)]
    ELSE NaN

\* df[c] = values: an existing column is overwritten in place, a new one
\* is appended
SetColumn(df, c, values) ==
    IF \E j \in DOMAIN df.columns : df.columns[j] = c
    THEN [columns |-> df.columns,
          data |-> [i \in DOMAIN df.data |->
                      [df.data[i] EXCEPT ![ColIndex(df.columns, c)] = values[i]]]]
    ELSE [columns |-> Append(df.columns, c),
          data |-> [i \in DOMAIN df.data |-> Append(df.data[i], values[i])]]

(***************************************************************************)
(* Column detection (lines 39-49, 72, 90-91, 100).                         *)
(***************************************************************************)
possible_name_cols == {"Employee Name", "Name of the Official", "Name", "Employee"}

\* "division" in c.lower() or "unit" in c.lower(), on the names of the model
DivisionOrUnit == {"Division", "Unit", "Division/ Unit", "DIVISION"}

\* "s.no" in low or "employee no" in low or "emp no" in low
IsMetadata(c) == c \in {"S.No", "Employee No", "Emp No"}

\* str(c).lower().startswith("unnamed")
StartsWithUnnamed(c) == c \in {"Unnamed: 1", "Unnamed: 2"}

\* .str.contains("RMS TP", case=False, na=False) on the texts of the model
ContainsRmsTp(x) == x \in {"RMS TP", "rms tp East", "RMS TP batch"}

DIVISION_OUT == "Division/ Unit"

(***************************************************************************)
(* Outcomes of process_uploaded_to_pivot_df: it returns, or it shows an    *)
(* error and calls st.stop(), or a pandas call raises.                     *)
(***************************************************************************)
Returned(pivot, name_c, course_c) ==
    [kind |-> "return", pivot |-> pivot, name_col |-> name_c,
     course_cols |-> course_c, error |-> ""]

Stopped(msg) ==
    [kind |-> "stop", pivot |-> EmptyFrame, name_col |-> NoCol,
     course_cols |-> <<>>, error |-> msg]

Raised(exc) ==
    [kind |-> "raise", pivot |-> EmptyFrame, name_col |-> NoCol,
     course_cols |-> <<>>, error |-> exc]

\* lambda x: 1 if str(x).strip() == "1" else 0   (line 53)
CellNorm(x) == IF Strip(PyStr(x)) = "1" THEN IntV(1) ELSE IntV(0)

\* df[[name_c, division_col]].drop_duplicates(): the distinct pairs
DivPairs(df, name_c, division_col) ==
    {<<Cell(df, i, name_c), Cell(df, i, division_col)>> : i \in DOMAIN df.data}

\* .set_index(name_c)[division_col] has a unique index
UniqueIndex(pairs) ==
    \A p \in pairs : \A q \in pairs : p[1] = q[1] => p = q

\* pivot[name_c].map(div_series), for a div_series with a unique index
MapDivision(pivot, name_c, pairs) ==
    [i \in DOMAIN pivot.data |->
        LET key == Cell(pivot, i, name_c)
        IN  IF \E p \in pairs : p[1] = key
            THEN (CHOOSE p \in pairs : p[1] = key)[2]
            ELSE NaN]

\* lines 57-59 and 101-103: Series.map raises InvalidIndexError when the
\* index of the mapping Series is not unique
AttachDivision(pivot, df, name_c, division_col, course_c) ==
    IF division_col = NoCol
    THEN Returned(pivot, name_c, course_c)
    ELSE LET pairs == DivPairs(df, name_c, division_col)
         IN  IF UniqueIndex(pairs)
             THEN Returned(SetColumn(pivot, DIVISION_OUT,
                                     MapDivision(pivot, name_c, pairs)),
                           name_c, course_c)
             ELSE Raised("InvalidIndexError")

\* lines 43-50
CourseColsCsv(columns, name_c, division_col) ==
    SelectSeq(columns,
        LAMBDA c : c # name_c /\ c # division_col /\ ~IsMetadata(c))

\* line 53 and 55: df.set_index(name_c)[course_c].applymap(..).reset_index()
IndicatorPivot(df, name_c, course_c) ==
    [columns |-> <<name_c>> \o course_c,
     data |-> [i \in DOMAIN df.data |->
                 <<Cell(df, i, name_c)>> \o
                 [k \in DOMAIN course_c |->
                     CellNorm(Cell(df, i, course_c[k]))]]]

\* lines 35-60
ProcessCsv(file) ==
    LET df == DropAllNaColumns(StripColumns(ReadCsv(file)))
        named == FirstColumn(df.columns, possible_name_cols)
        name_c == IF named # NoCol THEN named ELSE df.columns[1]
        division_col == FirstColumn(df.columns, DivisionOrUnit)
        course_c == CourseColsCsv(df.columns, name_c, division_col)
        pivot == IndicatorPivot(df, name_c, course_c)
    IN  AttachDivision(pivot, df, name_c, division_col, course_c)

(***************************************************************************)
(* Workbook branch (lines 63-108).                                         *)
(***************************************************************************)
COURSE_NAME == "Course Name"

\* the strings that occur as employee names and sheet names, ascending in
\* Python's string order: what pivot_table sorts its index and columns by
StrOrder == <<"Alice", "Alpha", "Bob", "Zeta">>

\* line 71
DropUnnamed(df) ==
    SelectColumns(df, KeepIdx(Len(df.columns),
        {j \in DOMAIN df.columns : ~StartsWithUnnamed(df.columns[j])}))

\* lines 72-80: the rows of a sheet that belong to RMS TP
RmsTpRows(df_sheet) ==
    LET division_col == FirstColumn(df_sheet.columns, DivisionOrUnit)
    IN  IF division_col # NoCol
        THEN SelectRows(df_sheet, KeepIdx(Len(df_sheet.data),
                {i \in DOMAIN df_sheet.data :
                    ContainsRmsTp(PyStr(Cell(df_sheet, i, division_col)))}))
        ELSE SelectRows(df_sheet, KeepIdx(Len(df_sheet.data),
                {i \in DOMAIN df_sheet.data :
                    \E j \in DOMAIN df_sheet.columns :
                        ContainsRmsTp(PyStr(df_sheet.data[i][j]))}))

\* mutant: no frame is ever taken for empty
IsEmptyFrameNever(df) == FALSE

\* DataFrame.empty
IsEmptyFrame(df) == Len(df.data) = 0 \/ Len(df.columns) = 0

\* pd.concat([combined, df_tp], ignore_index=True): the union of the
\* columns in first-seen order, missing cells NaN
Concat(combined, df_tp) ==
    LET columns == combined.columns \o
                   SelectSeq(df_tp.columns,
                       LAMBDA c : \A j \in DOMAIN combined.columns :
                                     combined.columns[j] # c)
        Align(df) == [i \in DOMAIN df.data |->
                        [j \in DOMAIN columns |-> Cell(df, i, columns[j])]]
    IN  [columns |-> columns, data |-> Align(combined) \o Align(df_tp)]

\* lines 67-84, for one sheet
AddSheet(combined, sheet) ==
    LET df_sheet == DropUnnamed(DropAllNaColumns(StripColumns(ReadExcel(sheet))))
        df_tp == RmsTpRows(df_sheet)
    IN  IF IsEmptyFrame(df_tp)
        THEN combined
        ELSE Concat(combined,
                    SetColumn(df_tp, COURSE_NAME,
                              [i \in DOMAIN df_tp.data |-> StrV(sheet.name)]))

\* lines 64-84: the loop over xls.sheet_names
Combined(sheets) ==
    LET F[k \in 0..Len(sheets)] ==
          IF k = 0 THEN EmptyFrame ELSE AddSheet(F[k - 1], sheets[k])
    IN  F[Len(sheets)]

\* the rows pivot_table groups: those whose index key is not NaN
Grouped(combined, name_c) ==
    {i \in DOMAIN combined.data : Cell(combined, i, name_c) # NaN}

\* mutant: the labels in the order the rows first show them
FirstSeenLabels(combined, rows, c) ==
    LET F[k \in 0..Len(combined.data)] ==
          IF k = 0 THEN <<>>
          ELSE LET v == Cell(combined, k, c)
               IN  IF k \in rows /\ \A j \in DOMAIN F[k - 1] : F[k - 1][j] # v.s
                   THEN Append(F[k - 1], v.s)
                   ELSE F[k - 1]
    IN  F[Len(combined.data)]

\* the labels of a column among the grouped rows, sorted ascending
SortedLabels(combined, rows, c) ==
    SelectSeq(StrOrder,
        LAMBDA x : \E i \in rows : Cell(combined, i, c) = StrV(x))

\* lines 96-98: pivot_table(index=name_c, columns="Course Name",
\* values="PRESENT", aggfunc="sum", fill_value=0).reset_index()
PivotTable(combined, name_c) ==
    LET rows == Grouped(combined, name_c)
        names == SortedLabels(combined, rows, name_c)
        courses == SortedLabels(combined, rows, COURSE_NAME)
    IN  [columns |-> <<name_c>> \o courses,
         data |-> [a \in DOMAIN names |->
                     <<StrV(names[a])>> \o
                     [b \in DOMAIN courses |->
                        IntV(Cardinality({i \in rows :
                            /\ Cell(combined, i, name_c) = StrV(names[a])
                            /\ Cell(combined, i, COURSE_NAME) = StrV(courses[b])}))]]]

\* line 107
CourseColsWorkbook(pivot, name_c) ==
    SelectSeq(pivot.columns, LAMBDA c : c # name_c /\ c # DIVISION_OUT)

NO_RMS_TP_ROWS == "No RMS TP rows were found in any sheet."

NAME_COLUMN_MISSING == "Employee name column missing after consolidation."

\* lines 63-108
ProcessWorkbook(file) ==
    LET combined == Combined(file.sheets)
        name_c == FirstColumn(combined.columns, possible_name_cols)
        pivot == PivotTable(combined, name_c)
        division_col == FirstColumn(combined.columns, DivisionOrUnit)
    IN  IF IsEmptyFrame(combined) THEN Stopped(NO_RMS_TP_ROWS)
        ELSE IF name_c = NoCol THEN Stopped(NAME_COLUMN_MISSING)
        ELSE AttachDivision(pivot, combined, name_c, division_col,
                            CourseColsWorkbook(pivot, name_c))

\* fname = uploaded.name.lower(); fname.endswith(".csv")   (lines 32-33)
EndsWithCsv(name) == name \in {"pivot.csv", "PIVOT.CSV"}

\* lines 31-108
process_uploaded_to_pivot_df(uploaded) ==
    IF EndsWithCsv(uploaded.name)
    THEN ProcessCsv(uploaded)
    ELSE ProcessWorkbook(uploaded)

\* a cell as DataFrame.to_csv writes it: NaN is the empty field
CsvField(v) == IF v = NaN THEN "" ELSE PyStr(v)

\* pivot_df.to_csv(index=False)   (line 117): the header line, then the rows
ToCsv(df) ==
    <<df.columns>> \o
    [i \in DOMAIN df.data |-> [j \in DOMAIN df.columns |-> CsvField(df.data[i][j])]]

(***************************************************************************)
(* HTTP responses.  resp.json() raises ValueError on a body that is not    *)
(* JSON (form "text"); a JSON body is falsy ({}, [], null: form "empty"),  *)
(* a non-empty value with no .get (a list: form "array"), or an object,    *)
(* of which the script reads sha, message and content.html_url.            *)
(***************************************************************************)
NoKey == "<missing>"

Body(form, s, message, html_url) ==
    [form |-> form, sha |-> s, message |-> message, html_url |-> html_url]

JsonObject(s, message, html_url) == Body("object", s, message, html_url)

TextBody == Body("text", None, "", NoKey)

EmptyJson == Body("empty", None, "", NoKey)

ArrayJson == Body("array", None, "", NoKey)

Response(status, body) == [status |-> status, body |-> body]

NoResp == Response(0, TextBody)

\* get_json / put_json is set and truthy
JsonTruthy(body) == body.form \in {"object", "array"}

(***************************************************************************)
(* What the page shows: st.write / st.error / st.success / st.info calls.  *)
(***************************************************************************)
Show(fn, text, status, body) ==
    [fn |-> fn, text |-> text, status |-> status, body |-> body]

Say(fn, text) == Show(fn, text, 0, TextBody)

\* lines 131-136 and 169-174: the body is written as JSON or as text
ShowBody(label, resp) ==
    IF resp.body.form = "text"
    THEN Show("write", label \o " response text:", 0, resp.body)
    ELSE Show("write", label \o " response json:", 0, resp.body)

(***************************************************************************)
(* The fetch step, lines 129-150.                                          *)
(***************************************************************************)
\* mutant: every status but 200 is taken for "no file yet"
GetBranchLenient(resp) ==
    IF resp.status = 200 /\ JsonTruthy(resp.body) THEN "found" ELSE "missing"

GET_FAILED == "Failed to fetch existing file info:"

\* the branch taken at lines 138, 141, 144
GetBranch(resp) ==
    IF resp.status = 200 /\ JsonTruthy(resp.body) THEN "found"
    ELSE IF resp.status = 404 THEN "missing"
    ELSE "failed"

\* lines 130-150: where the script goes, the sha it holds, what it shows
GetOutcome(resp) ==
    LET head == <<Show("write", "GET file response status:", resp.status, TextBody),
                  ShowBody("GET file", resp)>>
        branch == GetBranch(resp)
    IN  CASE branch = "found" /\ resp.body.form = "array" ->
               \* get_json.get: a list has no attribute get
               [next |-> "crashed", sha |-> None, shown |-> head]
          [] branch = "found" /\ resp.body.form # "array" ->
               [next |-> "fetched", sha |-> resp.body.sha,
                shown |-> Append(head, Say("write", "Existing file found."))]
          [] branch = "missing" ->
               [next |-> "fetched", sha |-> None,
                shown |-> Append(head, Say("write", "File does not exist yet (404)."))]
          [] OTHER ->
               [next |-> "stopped", sha |-> None,
                shown |-> head \o
                  <<Show("error", GET_FAILED,
                         resp.status, TextBody),
                    Show("write", "body", 0, resp.body)>>]

(***************************************************************************)
(* The write step, lines 153-199.                                          *)
(***************************************************************************)
\* base64.b64encode(csv_bytes).decode("utf-8")
B64Encode(bytes) == <<"b64", bytes>>

B64Decode(text) == text[2]

\* mutant: the sha key is always set
PayloadAlwaysSha(bytes, s) ==
    [message |-> COMMIT_MESSAGE, content |-> B64Encode(bytes),
     branch |-> BRANCH, sha |-> s]

\* mutant: the sha key is never set
PayloadNeverSha(bytes, s) ==
    [message |-> COMMIT_MESSAGE, content |-> B64Encode(bytes), branch |-> BRANCH]

\* lines 154-160: the sha key is set only for a truthy sha
Payload(bytes, s) ==
    IF Truthy(s)
    THEN [message |-> COMMIT_MESSAGE, content |-> B64Encode(bytes),
          branch |-> BRANCH, sha |-> s]
    ELSE [message |-> COMMIT_MESSAGE, content |-> B64Encode(bytes),
          branch |-> BRANCH]

\* mutant: a rejected write is taken for a success
PutSucceededLenient(resp) == resp.status \in {200, 201, 409, 422}

PUT_SUCCESS == "Processed pivot successfully uploaded to GitHub."

PUT_FAILED == "Failed to upload to GitHub. See details below."

\* line 176
PutSucceeded(resp) == resp.status \in {200, 201}

HINT_AUTH == "Authentication failed. Check the token and its scopes (repo/public_repo)."

HINT_UNPROCESSABLE == "Unprocessable entity (422) - likely wrong sha, branch or file path."

HINT_FORBIDDEN == "Forbidden - token might be missing required scopes or repo access is restricted."

HINT_GENERIC == "See JSON above for more details."

\* "Bad credentials" in msg, on the messages of the model
HasBadCredentials(msg) == msg = "Bad credentials"

\* mutant: the 403 branch is missing
PutHintNoForbidden(resp) ==
    IF HasBadCredentials(resp.body.message) \/ resp.status = 401
    THEN Say("error", HINT_AUTH)
    ELSE IF resp.status = 422 THEN Say("error", HINT_UNPROCESSABLE)
    ELSE Say("info", HINT_GENERIC)

\* lines 187-196: the hint for a failed write whose body is a JSON object
PutHint(resp) ==
    IF HasBadCredentials(resp.body.message) \/ resp.status = 401
    THEN Say("error", HINT_AUTH)
    ELSE IF resp.status = 422 THEN Say("error", HINT_UNPROCESSABLE)
    ELSE IF resp.status = 403 THEN Say("error", HINT_FORBIDDEN)
    ELSE Say("info", HINT_GENERIC)

\* mutant: a failed write goes back to the fetch
AfterPutFailureRetry == "processed"

\* line 199: st.stop() ends the run after a failed write
AfterPutFailure == "stopped"

\* lines 168-199
PutOutcome(resp) ==
    LET head == <<Show("write", "PUT response status:", resp.status, TextBody),
                  ShowBody("PUT", resp)>>
        failed == head \o
                  <<Say("error", PUT_FAILED),
                    Show("write", "Status code:", resp.status, TextBody)>>
    IN  CASE PutSucceeded(resp) /\ resp.body.form = "object"
                                /\ resp.body.html_url # NoKey ->
               [next |-> "done",
                shown |-> head \o
                  <<Say("success", PUT_SUCCESS),
                    Say("write", resp.body.html_url),
                    Say("write", RAW_URL)>>]
          [] PutSucceeded(resp) /\ ~(resp.body.form = "object"
                                     /\ resp.body.html_url # NoKey) ->
               \* put_json["content"]["html_url"] raises TypeError / KeyError
               [next |-> "crashed",
                shown |-> Append(head,
                   Say("success", PUT_SUCCESS))]
          [] ~PutSucceeded(resp) /\ resp.body.form = "object" ->
               [next |-> AfterPutFailure,
                shown |-> failed \o <<Show("write", "body", 0, resp.body),
                                      PutHint(resp)>>]
          [] ~PutSucceeded(resp) /\ resp.body.form = "array" ->
               \* put_json.get: a list has no attribute get
               [next |-> "crashed",
                shown |-> Append(failed, Show("write", "body", 0, resp.body))]
          [] OTHER ->
               [next |-> AfterPutFailure,
                shown |-> Append(failed, Show("write", "body", 0, resp.body))]

(***************************************************************************)
(* The remote file and the GitHub contents API that guards it.  The sha    *)
(* of a file is the hash of its content.                                   *)
(***************************************************************************)
BlobSha(content) == <<"blob", content>>

NoRemoteFile == [exists |-> FALSE, content |-> <<>>]

RemoteFile(content) == [exists |-> TRUE, content |-> content]

OldContent == <<<<"Name", "Old">>, <<"Zed", "1">>>>

\* GET /contents/{path}?ref={branch}
RemoteGet(file) ==
    IF file.exists
    THEN Response(200, JsonObject(BlobSha(file.content), "", NoKey))
    ELSE Response(404, JsonObject(None, "Not Found", NoKey))

\* the optimistic-concurrency check of PUT /contents/{path}
RemoteAccepts(file, payload) ==
    IF file.exists
    THEN "sha" \in DOMAIN payload /\ payload.sha = BlobSha(file.content)
    ELSE "sha" \notin DOMAIN payload

RemoteAfterPut(file, payload) ==
    IF RemoteAccepts(file, payload)
    THEN RemoteFile(B64Decode(payload.content))
    ELSE file

RemotePut(file, payload) ==
    IF RemoteAccepts(file, payload)
    THEN Response(IF file.exists THEN 200 ELSE 201,
                  JsonObject(BlobSha(B64Decode(payload.content)), "", HTML_URL))
    ELSE IF "sha" \in DOMAIN payload
    THEN Response(409, JsonObject(None, "does not match", NoKey))
    ELSE Response(422, JsonObject(None, "sha wasn't supplied", NoKey))

\* responses outside the contract: other statuses, bodies of any form
GetFaults ==
    {Response(st, b) :
        st \in {200, 404, 403, 500},
        b \in {TextBody, EmptyJson, ArrayJson,
               JsonObject(None, "Not Found", NoKey),
               JsonObject(EmptyStr, "", NoKey),
               JsonObject(BlobSha(OldContent), "", NoKey)}}

PutFaults ==
    {Response(st, b) :
        st \in {200, 201, 401, 403, 422, 500},
        b \in {TextBody, EmptyJson, ArrayJson,
               JsonObject(None, "", NoKey),
               JsonObject(None, "Bad credentials", NoKey),
               JsonObject(None, "Validation Failed", NoKey),
               JsonObject(None, "", HTML_URL)}}

(***************************************************************************)
(* Uploads.  A CSV file has a header line and rows of texts; a workbook    *)
(* has named sheets, each with the header of its second row and the rows   *)
(* below it.  Every layout pairs a header with the rows that can occur     *)
(* under it.                                                               *)
(***************************************************************************)
NoFile == [name |-> ""]

CsvLayouts ==
    { [name |-> "pivot.csv",
       header |-> <<"Employee Name", "Division", "CourseA", "CourseB">>,
       rows |-> {<<n, d, ab[1], ab[2]>> :
                    n \in {"Alice", "Bob"}, d \in {"HR", "IT"},
                    ab \in {<<"1", "0">>, <<"0", "1">>, <<"", "1">>}}],
      [name |-> "pivot.csv",
       header |-> <<" Name ", "CourseA ">>,
       rows |-> {<<n, a>> : n \in {"Alice", "Bob"},
                            a \in {"1", " 1 ", "yes", ""}}],
      [name |-> "PIVOT.CSV",
       header |-> <<"S.No", "Name", "CourseA">>,
       rows |-> {<<"1", n, a>> : n \in {"Alice", "Bob"}, a \in {"1", "0"}}],
      [name |-> "pivot.csv",
       header |-> <<"Emp", "CourseA", "CourseB">>,
       rows |-> {<<"Alice", a, b>> : a \in {"1", "yes"}, b \in {"", "1"}}],
      [name |-> "pivot.csv",
       header |-> <<"Name", "Unit", "Division/ Unit", "CourseA">>,
       rows |-> {<<n, "HR", "1", a>> : n \in {"Alice", "Bob"}, a \in {"1", "0"}}] }

RowSeqs(rows, n) == UNION {[1..k -> rows] : k \in 1..n}

CsvFile(l, rows) == [name |-> l.name, header |-> l.header, rows |-> rows]

SheetLayouts ==
    { [header |-> <<"Name", "Division">>,
       rows |-> {<<"Alice", "RMS TP">>, <<"Bob", "rms tp East">>, <<"Alice", "HR">>}],
      [header |-> <<"Employee Name", "Remarks", "Unnamed: 2">>,
       rows |-> {<<"Alice", "RMS TP batch", "x">>, <<"Bob", "ok", "">>}],
      [header |-> <<"Staff", "Remarks">>,
       rows |-> {<<"Alice", "RMS TP">>, <<"Bob", "ok">>}],
      [header |-> <<"Name", "Unit", "Remarks">>,
       rows |-> {<<"Bob", "HR", "RMS TP">>, <<"Alice", "RMS TP", "ok">>}] }

SheetContents(n) ==
    UNION {{[header |-> l.header, rows |-> r] : r \in RowSeqs(l.rows, n)} :
              l \in SheetLayouts}

Sheet(name, c) == [name |-> name, header |-> c.header, rows |-> c.rows]

\* sheet names are unique within a workbook
SheetNameLists == {<<"Zeta">>, <<"Alpha">>, <<"Zeta", "Alpha">>, <<"Alpha", "Zeta">>}

Workbook(names, c) ==
    [name |-> "book.xlsx",
     sheets |-> [k \in DOMAIN names |-> Sheet(names[k], c[k])]]

\* the two pivots two admins publish concurrently
RemoteUploads ==
    { [name |-> "pivot.csv", header |-> <<"Name", "CourseA">>,
       rows |-> <<<<"Alice", "1">>>>],
      [name |-> "pivot.csv", header |-> <<"Name", "CourseA">>,
       rows |-> <<<<"Bob", "yes">>>>] }

(***************************************************************************)
(* The state after the script's start: the token is set (lines 19-22); a   *)
(* run without an uploaded file has stopped at line 28.                    *)
(***************************************************************************)
InitWith(files, remotes) ==
    /\ uploaded_file = files
    /\ pc = [r \in Runs |-> IF files[r] = NoFile THEN "no_upload" ELSE "uploaded"]
    /\ pivot_df = [r \in Runs |-> EmptyFrame]
    /\ name_col = [r \in Runs |-> NoCol]
    /\ course_cols = [r \in Runs |-> <<>>]
    /\ csv_bytes = [r \in Runs |-> <<>>]
    /\ resp_get = [r \in Runs |-> NoResp]
    /\ sha = [r \in Runs |-> None]
    /\ resp_put = [r \in Runs |-> NoResp]
    /\ out = [r \in Runs |-> <<>>]
    /\ remote \in remotes
    /\ requests = <<>>

\* one admin uploads a file; the other sessions have none
OneRun(file) == [r \in Runs |-> IF r = 1 THEN file ELSE NoFile]

\* one run, its upload a CSV file of at most n rows or a workbook whose
\* sheets have at most m rows
InitOneRun(n, m, remotes) ==
    \/ \E l \in CsvLayouts : \E rows \in RowSeqs(l.rows, n) :
          InitWith(OneRun(CsvFile(l, rows)), remotes)
    \/ \E names \in SheetNameLists :
          \E c \in [DOMAIN names -> SheetContents(m)] :
             InitWith(OneRun(Workbook(names, c)), remotes)

Init == InitOneRun(1, 1, {NoRemoteFile, RemoteFile(OldContent)})

InitReshape == InitOneRun(MaxRows, MaxSheetRows, {NoRemoteFile})

InitRemote ==
    \E files \in [Runs -> RemoteUploads] :
        InitWith(files, {NoRemoteFile, RemoteFile(OldContent)})

(***************************************************************************)
(* Lines 111-117: process the upload, preview it, serialise it.            *)
(***************************************************************************)
Process(r) ==
    /\ pc[r] = "uploaded"
    /\ LET res == process_uploaded_to_pivot_df(uploaded_file[r])
       IN  /\ pc' = [pc EXCEPT ![r] =
                       CASE res.kind = "return" -> "processed"
                         [] res.kind = "stop" -> "stopped"
                         [] OTHER -> "crashed"]
           /\ pivot_df' = [pivot_df EXCEPT ![r] = res.pivot]
           /\ name_col' = [name_col EXCEPT ![r] = res.name_col]
           /\ course_cols' = [course_cols EXCEPT ![r] = res.course_cols]
           /\ csv_bytes' = [csv_bytes EXCEPT ![r] =
                       IF res.kind = "return" THEN ToCsv(res.pivot) ELSE <<>>]
           /\ out' = [out EXCEPT ![r] =
                       CASE res.kind = "return" ->
                              <<Say("write", "Preview of processed pivot (first 10 rows):")>>
                         [] res.kind = "stop" -> <<Say("error", res.error)>>
                         [] OTHER -> <<Say("exception", res.error)>>]
    /\ UNCHANGED <<uploaded_file, resp_get, sha, resp_put, remote, requests>>

(***************************************************************************)
(* Lines 129-150: requests.get and what the script makes of the response.  *)
(***************************************************************************)
GetRequest(r) ==
    [run |-> r, method |-> "GET", payload |-> [ref |-> BRANCH],
     before |-> remote, after |-> remote]

Fetch(r, resp) ==
    /\ pc[r] = "processed"
    /\ LET o == GetOutcome(resp)
       IN  /\ pc' = [pc EXCEPT ![r] = o.next]
           /\ sha' = [sha EXCEPT ![r] = o.sha]
           /\ out' = [out EXCEPT ![r] = out[r] \o o.shown]
    /\ resp_get' = [resp_get EXCEPT ![r] = resp]
    /\ requests' = Append(requests, GetRequest(r))
    /\ UNCHANGED <<uploaded_file, pivot_df, name_col, course_cols, csv_bytes,
                   resp_put, remote>>

\* the API answers for the file as it is
Get(r) == Fetch(r, RemoteGet(remote))

\* the answer is something else
GetFault(r) == \E resp \in GetFaults : Fetch(r, resp)

\* requests.get raises (no connection): the script ends with the exception
GetRaises(r) ==
    /\ pc[r] = "processed"
    /\ pc' = [pc EXCEPT ![r] = "crashed"]
    /\ out' = [out EXCEPT ![r] = Append(out[r], Say("exception", "ConnectionError"))]
    /\ requests' = Append(requests, GetRequest(r))
    /\ UNCHANGED <<uploaded_file, pivot_df, name_col, course_cols, csv_bytes,
                   resp_get, sha, resp_put, remote>>

(***************************************************************************)
(* Lines 153-199: requests.put and what the script makes of the response.  *)
(***************************************************************************)
PutRequest(r, after) ==
    [run |-> r, method |-> "PUT", payload |-> Payload(csv_bytes[r], sha[r]),
     before |-> remote, after |-> after]

Preparing == Say("write", "Preparing to PUT to GitHub")

Write(r, resp, after) ==
    /\ pc[r] = "fetched"
    /\ LET o == PutOutcome(resp)
       IN  /\ pc' = [pc EXCEPT ![r] = o.next]
           /\ out' = [out EXCEPT ![r] = Append(out[r], Preparing) \o o.shown]
    /\ resp_put' = [resp_put EXCEPT ![r] = resp]
    /\ remote' = after
    /\ requests' = Append(requests, PutRequest(r, after))
    /\ UNCHANGED <<uploaded_file, pivot_df, name_col, course_cols, csv_bytes,
                   resp_get, sha>>

\* the API checks the sha and answers
Put(r) ==
    LET payload == Payload(csv_bytes[r], sha[r])
    IN  Write(r, RemotePut(remote, payload), RemoteAfterPut(remote, payload))

\* the answer is something else, and the file is left as it was
PutFault(r) == \E resp \in PutFaults : Write(r, resp, remote)

\* requests.put raises
PutRaises(r) ==
    /\ pc[r] = "fetched"
    /\ pc' = [pc EXCEPT ![r] = "crashed"]
    /\ out' = [out EXCEPT ![r] =
                 out[r] \o <<Preparing, Say("exception", "ConnectionError")>>]
    /\ requests' = Append(requests, PutRequest(r, remote))
    /\ UNCHANGED <<uploaded_file, pivot_df, name_col, course_cols, csv_bytes,
                   resp_get, sha, resp_put, remote>>

(***************************************************************************)
(* Specifications.                                                         *)
(***************************************************************************)
Next ==
    \E r \in Runs :
        \/ Process(r)
        \/ Get(r)
        \/ GetFault(r)
        \/ GetRaises(r)
        \/ Put(r)
        \/ PutFault(r)
        \/ PutRaises(r)

NextFaithful ==
    \E r \in Runs :
        \/ Process(r)
        \/ Get(r)
        \/ Put(r)

\* one run against a remote that may answer anything
Spec == Init /\ [][Next]_vars

\* one run over every upload of the bounds, the API answering as specified
SpecReshape == InitReshape /\ [][NextFaithful]_vars

\* concurrent runs against the API answering as specified
SpecRemote == InitRemote /\ [][NextFaithful]_vars

(***************************************************************************)
(* Vocabulary of the properties.                                           *)
(***************************************************************************)
\* the positions of the requests a run has sent with a method
Sent(r, method) ==
    {k \in DOMAIN requests : requests[k].run = r /\ requests[k].method = method}

HasSha(payload) == "sha" \in DOMAIN payload

GotResponse(r) == resp_get[r] # NoResp

PutResponse(r) == resp_put[r] # NoResp

\* the page shows a status / a body / a message
ShowsStatus(r, text, status) ==
    \E i \in DOMAIN out[r] : out[r][i].text = text /\ out[r][i].status = status

ShowsBody(r, body) ==
    \E i \in DOMAIN out[r] :
        /\ out[r][i].fn = "write"
        /\ out[r][i].text \in {"body", "GET file response json:",
                               "GET file response text:",
                               "PUT response json:", "PUT response text:"}
        /\ out[r][i].body = body

Shows(r, fn, text) ==
    \E i \in DOMAIN out[r] : out[r][i].fn = fn /\ out[r][i].text = text

\* the hints of lines 190-194 the page shows
SpecificHints(r) ==
    {h \in {HINT_AUTH, HINT_UNPROCESSABLE, HINT_FORBIDDEN} : Shows(r, "error", h)}

(***************************************************************************)
(* C1.  A PUT is sent only after the run's GET response has arrived, and   *)
(* only when its status was 200 or 404; a GET response with any other      *)
(* status stops the run with the status and the body shown and no PUT      *)
(* sent.                                                                   *)
(***************************************************************************)
C1_ReadBeforeWrite ==
    \A r \in Runs :
        /\ \A k \in Sent(r, "PUT") :
              /\ \E j \in Sent(r, "GET") : j < k
              /\ GotResponse(r)
              /\ resp_get[r].status \in {200, 404}
        /\ (GotResponse(r) /\ resp_get[r].status \notin {200, 404}) =>
              /\ pc[r] = "stopped"
              /\ ShowsStatus(r, GET_FAILED, resp_get[r].status)
              /\ ShowsBody(r, resp_get[r].body)
              /\ Sent(r, "PUT") = {}

\* a run that has sent its PUT after a 404, and had a file to publish
C1_Witness ==
    \E r \in Runs :
        /\ Sent(r, "PUT") # {}
        /\ resp_get[r].status = 404
        /\ pc[r] = "done"

(***************************************************************************)
(* C2.  As claimed: the PUT payload has a sha field exactly when the GET   *)
(* status was 200, and the field is then the sha of the GET response.      *)
(* Refuted by a 200 response whose JSON object holds no sha (or an empty   *)
(* one): line 159 tests the sha, not the status.                           *)
(***************************************************************************)
C2_ShaIffStatus200 ==
    \A r \in Runs : \A k \in Sent(r, "PUT") :
        /\ HasSha(requests[k].payload) <=> resp_get[r].status = 200
        /\ HasSha(requests[k].payload) =>
              requests[k].payload.sha = resp_get[r].body.sha

(***************************************************************************)
(* C2, amended.  The PUT payload has a sha field exactly when the GET      *)
(* status was 200 and its JSON body held a non-empty sha, and the field    *)
(* is then that sha; after a 404 the payload has no sha field.             *)
(***************************************************************************)
C2_ShaIffFetched ==
    \A r \in Runs : \A k \in Sent(r, "PUT") :
        /\ HasSha(requests[k].payload) <=>
              /\ resp_get[r].status = 200
              /\ resp_get[r].body.form = "object"
              /\ resp_get[r].body.sha \notin {None, EmptyStr}
        /\ HasSha(requests[k].payload) =>
              requests[k].payload.sha = resp_get[r].body.sha
        /\ resp_get[r].status = 404 => ~HasSha(requests[k].payload)

\* a PUT that carries the sha of a 200 response
C2_Witness ==
    \E r \in Runs : \E k \in Sent(r, "PUT") :
        /\ resp_get[r].status = 200
        /\ HasSha(requests[k].payload)
        /\ requests[k].payload.sha = BlobSha(OldContent)

(***************************************************************************)
(* C3.  As claimed: after a failed write the hint depends on the status    *)
(* alone (401 credentials, 422 unprocessable, 403 forbidden, any other     *)
(* status no specific hint), and the raw body is shown.  Refuted: line     *)
(* 189 also reads the message, and lines 185-196 give a hint only for a    *)
(* non-empty JSON body.                                                    *)
(***************************************************************************)
HintByStatus(status) ==
    CASE status = 401 -> {HINT_AUTH}
      [] status = 422 -> {HINT_UNPROCESSABLE}
      [] status = 403 -> {HINT_FORBIDDEN}
      [] OTHER -> {}

C3_HintByStatusAlone ==
    \A r \in Runs :
        (PutResponse(r) /\ resp_put[r].status \notin {200, 201}) =>
            /\ Shows(r, "error", PUT_FAILED)
            /\ SpecificHints(r) = HintByStatus(resp_put[r].status)
            /\ ShowsBody(r, resp_put[r].body)

(***************************************************************************)
(* C3, amended.  After a failed write the failure and the raw body are     *)
(* always shown.  When the body is a JSON object, the hint is the          *)
(* credential hint if the status is 401 or the message holds "Bad          *)
(* credentials", else the unprocessable hint for 422, else the forbidden   *)
(* hint for 403, else the generic note; for any other body no hint is      *)
(* shown.                                                                  *)
(***************************************************************************)
C3_HintByStatusAndBody ==
    \A r \in Runs :
        (PutResponse(r) /\ resp_put[r].status \notin {200, 201}) =>
            LET st == resp_put[r].status
                body == resp_put[r].body
                auth == st = 401 \/ body.message = "Bad credentials"
            IN  /\ Shows(r, "error", PUT_FAILED)
                /\ ShowsBody(r, body)
                /\ body.form = "object" =>
                     /\ SpecificHints(r) =
                          (IF auth THEN {HINT_AUTH}
                           ELSE HintByStatus(st))
                     /\ Shows(r, "info", HINT_GENERIC) <=>
                          (~auth /\ st \notin {422, 403})
                /\ body.form # "object" =>
                     /\ SpecificHints(r) = {}
                     /\ ~Shows(r, "info", HINT_GENERIC)

\* a write rejected with 403 and a JSON body, the forbidden hint shown
C3_Witness ==
    \E r \in Runs :
        /\ resp_put[r].status = 403
        /\ resp_put[r].body.form = "object"
        /\ SpecificHints(r) = {HINT_FORBIDDEN}

(***************************************************************************)
(* C4.  No retry and no re-fetch: a run sends at most one GET and at most  *)
(* one PUT, sends no PUT after a failed fetch, and once it has failed      *)
(* (stopped or ended with an exception) it sends no further request.       *)
(***************************************************************************)
Failed(r) == pc[r] \in {"stopped", "crashed"}

RequestsOf(r) == SelectSeq(requests, LAMBDA q : q.run = r)

C4_AtMostOnce ==
    \A r \in Runs :
        /\ Cardinality(Sent(r, "GET")) <= 1
        /\ Cardinality(Sent(r, "PUT")) <= 1
        /\ Shows(r, "error", GET_FAILED) =>
              Sent(r, "PUT") = {}

C4_NoRetry ==
    /\ []C4_AtMostOnce
    /\ [][\A r \in Runs : Failed(r) => RequestsOf(r)' = RequestsOf(r)]_vars

\* a run whose write was rejected, stopped with one GET and one PUT sent
C4_Witness ==
    \E r \in Runs :
        /\ pc[r] = "stopped"
        /\ resp_put[r].status = 422
        /\ Cardinality(Sent(r, "GET")) = 1
        /\ Cardinality(Sent(r, "PUT")) = 1

(***************************************************************************)
(* Vocabulary of the reshaping properties.                                 *)
(***************************************************************************)
IsCsv(file) == file.name \in {"pivot.csv", "PIVOT.CSV"}

IsWorkbook(file) == file.name = "book.xlsx"

\* the processing has run and returned a pivot table
HasPivot(r) == pc[r] \in {"processed", "fetched", "done"}

NoRequestOf(r) == Sent(r, "GET") = {} /\ Sent(r, "PUT") = {}

\* some cell of some sheet of the workbook holds "RMS TP" in any case
SomeRmsTpCell(file) ==
    \E k \in DOMAIN file.sheets :
        \E i \in DOMAIN file.sheets[k].rows :
            \E j \in DOMAIN file.sheets[k].header :
                file.sheets[k].rows[i][j] \in {"RMS TP", "rms tp East", "RMS TP batch"}

\* position of a name in a sequence, 0 when it is not there
Pos(seq, x) ==
    IF \E j \in DOMAIN seq : seq[j] = x
    THEN CHOOSE j \in DOMAIN seq : seq[j] = x
    ELSE 0

(***************************************************************************)
(* C5.  A workbook none of whose cells holds "RMS TP" stops the run with   *)
(* the "No RMS TP rows" error, and a workbook whose combined rows have no  *)
(* recognised identifier column stops it with the identifier-missing       *)
(* error; in both cases the run sends neither a GET nor a PUT.             *)
(***************************************************************************)
C5_InputErrorsHalt ==
    \A r \in Runs :
        (IsWorkbook(uploaded_file[r]) /\ pc[r] # "uploaded") =>
            LET file == uploaded_file[r]
                combined == Combined(file.sheets)
            IN  /\ ~SomeRmsTpCell(file) =>
                     /\ pc[r] = "stopped"
                     /\ out[r] = <<Say("error", NO_RMS_TP_ROWS)>>
                     /\ NoRequestOf(r)
                /\ (/\ Len(combined.data) > 0
                    /\ \A j \in DOMAIN combined.columns :
                          combined.columns[j] \notin possible_name_cols) =>
                     /\ pc[r] = "stopped"
                     /\ out[r] = <<Say("error", NAME_COLUMN_MISSING)>>
                     /\ NoRequestOf(r)

\* a workbook of two sheets without any RMS TP cell has stopped the run
C5_Witness ==
    \E r \in Runs :
        /\ IsWorkbook(uploaded_file[r])
        /\ Len(uploaded_file[r].sheets) = 2
        /\ ~SomeRmsTpCell(uploaded_file[r])
        /\ pc[r] = "stopped"

(***************************************************************************)
(* C6.  As claimed: no two rows of a returned pivot table hold the same    *)
(* identifier value.  The CSV branch (line 53) keeps one row per input     *)
(* row.                                                                    *)
(***************************************************************************)
C6_UniqueIdentifiers ==
    \A r \in Runs :
        HasPivot(r) =>
            \A i \in DOMAIN pivot_df[r].data : \A j \in DOMAIN pivot_df[r].data :
                pivot_df[r].data[i][1] = pivot_df[r].data[j][1] => i = j

(***************************************************************************)
(* C7.  As claimed, for a workbook: the columns are the identifier, then   *)
(* the course columns in first-seen order (the order of the sheets), then  *)
(* "Division/ Unit" last if present.  pivot_table (line 97) sorts the      *)
(* course columns.                                                         *)
(***************************************************************************)
\* the names in the order the upload first shows them
FirstSeen(file) ==
    IF IsCsv(file)
    THEN [j \in DOMAIN file.header |-> Strip(file.header[j])]
    ELSE [k \in DOMAIN file.sheets |-> file.sheets[k].name]

\* the columns between the identifier and a trailing "Division/ Unit"
Between(columns) ==
    {j \in DOMAIN columns : j > 1 /\ columns[j] # DIVISION_OUT}

C7_FirstSeenOrder ==
    \A r \in Runs :
        (HasPivot(r) /\ IsWorkbook(uploaded_file[r])) =>
            LET columns == pivot_df[r].columns
                seen == FirstSeen(uploaded_file[r])
            IN  /\ columns[1] = name_col[r]
                /\ \A i \in Between(columns) : \A j \in Between(columns) :
                      i < j => Pos(seen, columns[i]) < Pos(seen, columns[j])
                /\ \A j \in DOMAIN columns :
                      columns[j] = DIVISION_OUT => j = Len(columns)

(***************************************************************************)
(* C7, amended.  The columns are the identifier, then the course columns   *)
(* (in input column order for a CSV file, in ascending order of the sheet  *)
(* names for a workbook), then "Division/ Unit", which is last unless the  *)
(* CSV file has a course column of that very name, whose place it takes.   *)
(***************************************************************************)
C7_ColumnOrder ==
    \A r \in Runs :
        HasPivot(r) =>
            LET columns == pivot_df[r].columns
                file == uploaded_file[r]
                seen == IF IsCsv(file) THEN FirstSeen(file) ELSE StrOrder
            IN  /\ columns[1] = name_col[r]
                /\ \A i \in DOMAIN columns : \A j \in DOMAIN columns :
                      (1 < i /\ i < j /\ Pos(seen, columns[j]) > 0) =>
                          /\ Pos(seen, columns[i]) > 0
                          /\ Pos(seen, columns[i]) < Pos(seen, columns[j])
                /\ \A j \in DOMAIN columns :
                      (columns[j] = DIVISION_OUT /\ Pos(seen, DIVISION_OUT) = 0) =>
                          j = Len(columns)

\* a workbook whose sheets come in descending order, both in the pivot
C7_Witness ==
    \E r \in Runs :
        /\ HasPivot(r)
        /\ IsWorkbook(uploaded_file[r])
        /\ FirstSeen(uploaded_file[r]) = <<"Zeta", "Alpha">>
        /\ Len(course_cols[r]) = 2
        /\ DIVISION_OUT \in {pivot_df[r].columns[j] : j \in DOMAIN pivot_df[r].columns}

(***************************************************************************)
(* C8.  As claimed, for a CSV file without a "Division/ Unit" column: a    *)
(* course cell of the pivot is 1 exactly when the text of the cell in the  *)
(* file, stripped, is "1", and is 0 otherwise.  read_csv (line 35) parses  *)
(* a column of 1s and empty cells to float64, whose str() is "1.0".        *)
(***************************************************************************)
C8_OneIffStrippedOne ==
    \A r \in Runs :
        (HasPivot(r) /\ IsCsv(uploaded_file[r])
           /\ Pos(FirstSeen(uploaded_file[r]), DIVISION_OUT) = 0) =>
            LET file == uploaded_file[r]
            IN  \A i \in DOMAIN pivot_df[r].data : \A k \in DOMAIN course_cols[r] :
                    LET j == Pos(FirstSeen(file), course_cols[r][k])
                        cell == pivot_df[r].data[i][Pos(pivot_df[r].columns,
                                                        course_cols[r][k])]
                    IN  /\ cell \in {IntV(0), IntV(1)}
                        /\ cell = IntV(1) <=> Strip(file.rows[i][j]) = "1"

(***************************************************************************)
(* Vocabulary of the publishing properties.                                *)
(***************************************************************************)
IsRequest(k, r, method) ==
    k \in DOMAIN requests /\ requests[k].run = r /\ requests[k].method = method

\* run a publishes, then run b publishes, with no write of another run
\* from a's fetch to b's write
Consecutive(a, b, i) ==
    /\ IsRequest(i, a, "GET")
    /\ IsRequest(i + 1, a, "PUT")
    /\ \E k \in DOMAIN requests : \E l \in DOMAIN requests :
          /\ i + 1 < k /\ k < l
          /\ IsRequest(k, b, "GET")
          /\ IsRequest(l, b, "PUT")
          /\ \A m \in (i + 2)..(l - 1) : requests[m].method # "PUT"

PutOf(r) == requests[CHOOSE k \in DOMAIN requests : IsRequest(k, r, "PUT")]

GetOf(r) == requests[CHOOSE k \in DOMAIN requests : IsRequest(k, r, "GET")]

(***************************************************************************)
(* C9.  Two consecutive publish runs of the same pivot table, with no      *)
(* other writer, both end in success; the second run's GET returns the     *)
(* sha the first write produced, its PUT carries exactly that sha, and     *)
(* the remote file then holds the bytes of the second publish.             *)
(***************************************************************************)
C9_PublishTwice ==
    \A a \in Runs : \A b \in Runs \ {a} : \A i \in DOMAIN requests :
        (Consecutive(a, b, i) /\ pivot_df[a] = pivot_df[b]) =>
            /\ pc[a] = "done" /\ Shows(a, "success", PUT_SUCCESS)
            /\ pc[b] = "done" /\ Shows(b, "success", PUT_SUCCESS)
            /\ resp_get[b].status = 200
            /\ resp_get[b].body.sha = resp_put[a].body.sha
            /\ HasSha(PutOf(b).payload)
            /\ PutOf(b).payload.sha = resp_put[a].body.sha
            /\ PutOf(b).after = RemoteFile(csv_bytes[b])

\* both runs have published the same pivot, one after the other, on a
\* file that existed before
C9_Witness ==
    \E a \in Runs : \E b \in Runs \ {a} :
        /\ Consecutive(a, b, 1)
        /\ pivot_df[a] = pivot_df[b]
        /\ requests[1].before = RemoteFile(OldContent)
        /\ pc[b] = "done"

(***************************************************************************)
(* C10.  A run whose fetched state of the file (its sha, or its absence)   *)
(* is no longer the state of the file when its PUT arrives has the PUT     *)
(* rejected: the file stays as the other writer left it, and the run       *)
(* stops with the write failure shown and no success shown.                *)
(***************************************************************************)
StalePut(r) ==
    /\ Sent(r, "PUT") # {}
    /\ GetOf(r).before # PutOf(r).before

C10_StaleWriteRejected ==
    \A r \in Runs :
        StalePut(r) =>
            /\ PutOf(r).after = PutOf(r).before
            /\ resp_put[r].status \notin {200, 201}
            /\ pc[r] = "stopped"
            /\ Shows(r, "error", PUT_FAILED)
            /\ ~Shows(r, "success", PUT_SUCCESS)

\* a run fetched, another run then wrote other bytes, and the first run's
\* PUT came with the stale sha
C10_Witness ==
    \E r \in Runs :
        /\ StalePut(r)
        /\ GetOf(r).before.exists
        /\ HasSha(PutOf(r).payload)
        /\ pc[r] = "stopped"

====
